---- MODULE Spec2Model ----
(***************************************************************************)
(* Authentication workflow of lingua-api: AuthService (register, login,    *)
(* validateUser), the JwtModule / JwtStrategy configuration, JwtAuthGuard  *)
(* and the AuthController routes, over the Prisma User table; with them    *)
(* DevController (dev-login, whoami) and UploadController (upload, then    *)
(* transcription) over the uploads directory.                              *)
(*                                                                         *)
(* Every request is an independent asynchronous task.  A handler is cut    *)
(* into steps at its awaits on the store and on bcrypt, so that two        *)
(* requests interleave exactly where the event loop lets them.             *)
(***************************************************************************)
EXTENDS Naturals, FiniteSets, Sequences, TLC

\* ------------------------------------------------------------------ bounds
MaxRequests == 3     \* requests started in one behaviour
MaxClock    == 8     \* last instant of the clock, in days

\* --------------------------------------------------------------- constants
saltRounds == 10     \* AuthService.saltRounds
TTL        == 7      \* expiresIn: '7d', in days
MinLength  == 8      \* RegisterDto: @MinLength(8) password
MaxLength  == 100    \* RegisterDto: @MaxLength(100) password

RECURSIVE Repeat(_, _)
Repeat(s, n) == IF n = 0 THEN "" ELSE s \o Repeat(s, n - 1)

Procs     == {"t1", "t2"}                      \* concurrent request tasks
Emails    == {"a@b.com", "A@b.com"}            \* valid per RegisterDto / LoginDto
Passwords == {"password123", "correcthorse"}   \* valid per RegisterDto (8..100)
BadEmails    == {"not-an-email"}                 \* rejected by @IsEmail
BadPasswords == {"1234567", Repeat("x", 101)}    \* 7 and 101 characters
Salts     == {"saltA", "saltB"}                \* bcrypt's random salt
Secrets   == {"", "change-me-dev"}             \* JWT_SECRET: unset, or set

VARIABLES
    env,         \* the value of JWT_SECRET in the process environment
    app,         \* "init", "listening" or "failed": where bootstrap() got to
    store,       \* the User table: a set of rows
    nextId,      \* the id generator of the User table (cuid())
    now,         \* the clock
    req,         \* per task: the request it handles, its locals, its response
    issued,      \* history: the access tokens that login has returned
    registered,  \* history: the (email, password, id) of each successful register
    started,     \* number of requests started
    uploads      \* the uploads directory: the names of the files in it

vars == <<env, app, store, nextId, now, req, issued, registered, started, uploads>>

\* ---------------------------------------------------------------- values
NoToken   == [kind |-> "none", sub |-> "", email |-> "", iat |-> 0, exp |-> 0, key |-> ""]
Malformed == [kind |-> "malformed", sub |-> "", email |-> "", iat |-> 0, exp |-> 0, key |-> ""]

NoResp == [status |-> 0, error |-> "", message |-> "", invalid |-> {}, user |-> {},
           access_token |-> NoToken]

Idle == [op |-> "none", pc |-> "done", email |-> "", password |-> "", token |-> NoToken,
         prior |-> {}, rejected |-> {}, hashedPassword |-> "", found |-> {}, at |-> 0,
         info |-> "", absent |-> FALSE, err |-> "", user |-> {}, reqUser |-> {},
         file |-> {}, filename |-> "", transcribed |-> FALSE,
         handlerRan |-> FALSE, thrown |-> "", resp |-> NoResp]

\* Fields of a task's record: op and pc say which handler runs and where it
\* stands; email, password and token are the request's inputs; hashedPassword,
\* found (the looked-up user) and reqUser (req.user) are the handler's locals;
\* err and user are the arguments of a direct call of handleRequest; file is
\* the file part of an upload (at most one), filename the name it was stored
\* under, transcribed says that transcribeLocalFile was called;
\* thrown is the error the handler's catch (or the framework) received; resp
\* is the HTTP response.  History: prior is the set of successful registrations
\* of the request's email at its arrival, rejected is the set of passwords of
\* the registers of that email that had ended in a conflict by then (those
\* whose records the tasks still hold), at is the instant at which the
\* request read the clock, info is the reason the strategy gave for a failed
\* authentication, absent says that the table held no row for the token's
\* subject when the guard ran, handlerRan says that the route handler was entered.

\* model User { id @id @default(cuid()), email @unique, password, createdAt @default(now()) }
cuid(n) == "user-" \o ToString(n)

\* Mutant of Select: the select clause is ignored and the whole row returned.
Select_wholeRow(row, fields) == row

\* Prisma `select`: the projection of a row on the selected fields.
Select(row, fields) == [f \in fields |-> row[f]]

\* Mutant of findUniqueByEmail: the email column is matched without regard to
\* letter case.
findUniqueByEmail_anyCase(email, fields) ==
    {Select(u, fields) : u \in {v \in store : v.email \in {"a@b.com", "A@b.com"} /\
                                              email \in {"a@b.com", "A@b.com"}}}

\* Mutant of findUniqueByEmail: the lookup never finds a row.
findUniqueByEmail_none(email, fields) == {}

\* prisma.user.findUnique({ where: { email }, select }): the row or null
\* (a set of at most one projected row; {} is null).
findUniqueByEmail(email, fields) == {Select(u, fields) : u \in {v \in store : v.email = email}}

\* Mutant of findUniqueById: the id is looked up in the email column.
findUniqueById_byEmail(id, fields) == {Select(u, fields) : u \in {v \in store : v.email = id}}

\* prisma.user.findUnique({ where: { id }, select })
findUniqueById(id, fields) == {Select(u, fields) : u \in {v \in store : v.id = id}}

\* Mutant of UniqueViolation: the email column carries no unique constraint.
UniqueViolation_none(email) == FALSE

\* The @unique constraint on User.email: an insert of a taken email is rejected.
UniqueViolation(email) == \E u \in store : u.email = email

\* Mutant of bcryptHash: the password comes back as it went in.
bcryptHash_identity(password, rounds, salt) == password

\* bcrypt.hash(password, saltRounds): salted, one-way; the salt is drawn per call.
bcryptHash(password, rounds, salt) == "$2b$" \o ToString(rounds) \o "$" \o salt \o "$" \o password

\* Mutant of bcryptCompare: the plaintext is compared with the stored value.
bcryptCompare_plain(password, hash) == hash = password

\* bcrypt.compare(password, hash): re-hashes the password with the salt and
\* the cost that the stored hash carries, and compares.
bcryptCompare(password, hash) ==
    \E s \in Salts, r \in {saltRounds} : hash = bcryptHash(password, r, s)

\* HTTP status of a Nest exception class (and of an uncaught non-HTTP error).
StatusOf(error) ==
    CASE error = "BadRequestException"          -> 400
      [] error = "ConflictException"            -> 409
      [] error = "UnauthorizedException"        -> 401
      [] error = "PayloadTooLargeException"     -> 413
      [] error = "InternalServerErrorException" -> 500
      [] OTHER                                  -> 500

Fail(error, message) ==
    [status |-> StatusOf(error), error |-> error, message |-> message, invalid |-> {},
     user |-> {}, access_token |-> NoToken]

\* ------------------------------------------------------------- validation
\* class-validator's @IsEmail, tabulated on the addresses of the model.
IsEmail(s) == s \in Emails

\* Mutant of RegisterDtoErrors: the password carries no length decorators.
RegisterDtoErrors_noLength(email, password) ==
    {f \in {"email"} : ~IsEmail(email)}

\* RegisterDto: the fields that fail their decorators.
RegisterDtoErrors(email, password) ==
    {f \in {"email"} : ~IsEmail(email)} \cup
    {f \in {"password"} : Len(password) < MinLength \/ Len(password) > MaxLength}

\* LoginDto: @IsEmail email, @IsString @IsNotEmpty password.
LoginDtoErrors(email, password) ==
    {f \in {"email"} : ~IsEmail(email)} \cup
    {f \in {"password"} : password = ""}

\* The global ValidationPipe: a body that fails its DTO is answered with
\* BadRequestException (400) before the controller's handler is called.
ValidationPipe(errors) ==
    [status |-> StatusOf("BadRequestException"), error |-> "BadRequestException",
     message |-> "Bad Request", invalid |-> errors, user |-> {}, access_token |-> NoToken]

\* ---------------------------------------------------------------- startup
\* JwtModule.registerAsync useFactory: throws unless JWT_SECRET is set.
useFactory(secret) == secret # ""

\* JwtStrategy constructor: throws unless JWT_SECRET is set.
JwtStrategyCtor(secret) == secret # ""

\* Mutant of NestFactoryCreate: the providers initialise without their checks.
NestFactoryCreate_unchecked(secret) == TRUE

\* NestFactory.create(AppModule) resolves iff every provider initialises.
NestFactoryCreate(secret) == useFactory(secret) /\ JwtStrategyCtor(secret)

\* bootstrap(): create the application, then listen; a rejected create is
\* logged by the .catch and the application never listens.
bootstrap ==
    /\ app = "init"
    /\ app' = IF NestFactoryCreate(env) THEN "listening" ELSE "failed"
    /\ UNCHANGED <<env, store, nextId, now, req, issued, registered, started, uploads>>

Init ==
    /\ env \in Secrets
    /\ app = "init"
    /\ store = {}
    /\ nextId = 1
    /\ now = 0
    /\ req = [p \in Procs |-> Idle]
    /\ issued = {}
    /\ registered = {}
    /\ started = 0
    /\ uploads = {}

\* A task takes a new request when the application listens and the task is free.
CanStart(p) == app = "listening" /\ req[p].pc = "done" /\ started < MaxRequests

Finish(p, r, resp) == req' = [req EXCEPT ![p] = [r EXCEPT !.pc = "done", !.resp = resp]]

\* ---------------------------------------------------------------- register
\* Mutant of registerCatch: there is no catch, the error reaches the caller as
\* it was thrown.
registerCatch_rethrow(thrown, message) == Fail(thrown, message)

\* Mutant of registerCatch: the catch wraps every error, known ones included.
registerCatch_wrapAll(thrown, message) ==
    [status |-> 500, error |-> "InternalServerErrorException",
     message |-> "Failed to register user", invalid |-> {}, user |-> {},
     access_token |-> NoToken]

\* catch of register: a ConflictException is re-thrown, anything else becomes
\* InternalServerErrorException('Failed to register user').
registerCatch(thrown, message) ==
    IF thrown = "ConflictException"
    THEN Fail(thrown, message)
    ELSE Fail("InternalServerErrorException", "Failed to register user")

\* Mutant of registerFind: a register for a taken email overwrites the stored
\* password before it reports the conflict.
registerFind_overwrite(p) ==
    /\ CanStart(p)
    /\ \E email \in Emails \cup BadEmails, password \in Passwords \cup BadPasswords :
          LET r == [Idle EXCEPT !.op = "register", !.email = email, !.password = password,
                                !.prior = {g \in registered : g.email = email}]
              errors == RegisterDtoErrors(email, password)
              existingUser == findUniqueByEmail(email, {"id", "email", "password", "createdAt"})
          IN  IF errors # {}
              THEN /\ Finish(p, [r EXCEPT !.thrown = "BadRequestException"], ValidationPipe(errors))
                   /\ UNCHANGED store
              ELSE IF existingUser # {}
              THEN /\ Finish(p, [r EXCEPT !.thrown = "ConflictException"],
                             registerCatch("ConflictException", "User with this email already exists"))
                   /\ store' = {IF u.email = email
                                THEN [u EXCEPT !.password = bcryptHash(password, saltRounds, "saltA")]
                                ELSE u : u \in store}
              ELSE /\ req' = [req EXCEPT ![p] = [r EXCEPT !.pc = "hash"]]
                   /\ UNCHANGED store
    /\ started' = started + 1
    /\ UNCHANGED <<env, app, nextId, now, issued, registered, uploads>>

\* POST /auth/register up to the first await: the ValidationPipe on the
\* body, then the existence pre-check.
registerFind(p) ==
    /\ CanStart(p)
    /\ \E email \in Emails \cup BadEmails, password \in Passwords \cup BadPasswords :
          LET r == [Idle EXCEPT !.op = "register", !.email = email, !.password = password,
                                !.prior = {g \in registered : g.email = email}]
              errors == RegisterDtoErrors(email, password)
              existingUser == findUniqueByEmail(email, {"id", "email", "password", "createdAt"})
          IN  IF errors # {}
              THEN Finish(p, [r EXCEPT !.thrown = "BadRequestException"], ValidationPipe(errors))
              ELSE IF existingUser # {}
              THEN Finish(p, [r EXCEPT !.thrown = "ConflictException"],
                          registerCatch("ConflictException", "User with this email already exists"))
              ELSE req' = [req EXCEPT ![p] = [r EXCEPT !.pc = "hash"]]
    /\ started' = started + 1
    /\ UNCHANGED <<env, app, store, nextId, now, issued, registered, uploads>>

\* await bcrypt.hash(password, this.saltRounds)
registerHash(p) ==
    /\ req[p].op = "register" /\ req[p].pc = "hash"
    /\ \E salt \in Salts :
          req' = [req EXCEPT ![p].hashedPassword = bcryptHash(req[p].password, saltRounds, salt),
                             ![p].pc = "create"]
    /\ UNCHANGED <<env, app, store, nextId, now, issued, registered, started, uploads>>

\* Mutant of registerCreate: prisma.user.upsert in place of create, so that a
\* taken email has its password overwritten.
registerCreate_upsert(p) ==
    /\ req[p].op = "register" /\ req[p].pc = "create"
    /\ LET r == req[p]
           old == {u \in store : u.email = r.email}
           row == IF old = {}
                  THEN [id |-> cuid(nextId), email |-> r.email,
                        password |-> r.hashedPassword, createdAt |-> now]
                  ELSE [(CHOOSE u \in old : TRUE) EXCEPT !.password = r.hashedPassword]
       IN  /\ store' = (store \ old) \cup {row}
           /\ nextId' = IF old = {} THEN nextId + 1 ELSE nextId
           /\ registered' = registered \cup
                 {[email |-> r.email, password |-> r.password, id |-> row.id]}
           /\ Finish(p, r, [status |-> 201, error |-> "", invalid |-> {},
                            message |-> "User registered successfully",
                            user |-> {Select(row, {"id", "email", "createdAt"})},
                            access_token |-> NoToken])
    /\ UNCHANGED <<env, app, now, issued, started, uploads>>

\* await prisma.user.create({ data: { email, password: hashedPassword },
\*                            select: { id, email, createdAt } }), then return.
registerCreate(p) ==
    /\ req[p].op = "register" /\ req[p].pc = "create"
    /\ LET r == req[p]
           row == [id |-> cuid(nextId), email |-> r.email,
                   password |-> r.hashedPassword, createdAt |-> now]
       IN  IF UniqueViolation(r.email)
           THEN /\ Finish(p, [r EXCEPT !.thrown = "PrismaClientKnownRequestError"],
                          registerCatch("PrismaClientKnownRequestError",
                                        "Unique constraint failed on the fields: (email)"))
                /\ UNCHANGED <<store, nextId, registered>>
           ELSE /\ store' = store \cup {row}
                /\ nextId' = nextId + 1
                /\ registered' = registered \cup
                      {[email |-> r.email, password |-> r.password, id |-> row.id]}
                /\ Finish(p, r, [status |-> 201, error |-> "", invalid |-> {},
                                 message |-> "User registered successfully",
                                 user |-> {Select(row, {"id", "email", "createdAt"})},
                                 access_token |-> NoToken])
    /\ UNCHANGED <<env, app, now, issued, started, uploads>>

\* ------------------------------------------------------------------- login
\* this.config.get<string>('JWT_SECRET'): the environment's value, read per call.
configGet(e) == e

\* Mutant of jwtSign: the token expires after one day instead of expiresIn.
jwtSign_oneDay(payload, secret, expiresIn, t) ==
    [kind |-> "jwt", sub |-> payload.sub, email |-> payload.email,
     iat |-> t, exp |-> t + 1, key |-> secret]

\* jwtService.sign(payload, { secret, expiresIn }): the payload plus iat and
\* exp = iat + expiresIn, signed with the secret.
jwtSign(payload, secret, expiresIn, t) ==
    [kind |-> "jwt", sub |-> payload.sub, email |-> payload.email,
     iat |-> t, exp |-> t + expiresIn, key |-> secret]

\* Mutant of loginCatch: there is no catch, the error reaches the caller as
\* it was thrown.
loginCatch_rethrow(thrown, message) == Fail(thrown, message)

\* catch of login: UnauthorizedException and InternalServerErrorException are
\* re-thrown, anything else becomes InternalServerErrorException('Failed to login').
loginCatch(thrown, message) ==
    IF thrown \in {"UnauthorizedException", "InternalServerErrorException"}
    THEN Fail(thrown, message)
    ELSE Fail("InternalServerErrorException", "Failed to login")

\* POST /auth/login up to the first await: the ValidationPipe on the body,
\* then the lookup by email.
loginFind(p) ==
    /\ CanStart(p)
    /\ \E email \in Emails \cup BadEmails, password \in Passwords \cup {""} :
          LET r == [Idle EXCEPT !.op = "login", !.email = email, !.password = password,
                                !.prior = {g \in registered : g.email = email},
                                !.rejected = {req[q].password : q \in
                                    {t \in Procs : /\ req[t].op = "register"
                                                   /\ req[t].pc = "done"
                                                   /\ req[t].thrown = "ConflictException"
                                                   /\ req[t].email = email}}]
              errors == LoginDtoErrors(email, password)
              user == findUniqueByEmail(email, {"id", "email", "password"})
          IN  IF errors # {}
              THEN Finish(p, [r EXCEPT !.thrown = "BadRequestException"], ValidationPipe(errors))
              ELSE IF user = {}
              THEN Finish(p, [r EXCEPT !.thrown = "UnauthorizedException"],
                          loginCatch("UnauthorizedException", "User not found"))
              ELSE req' = [req EXCEPT ![p] = [r EXCEPT !.pc = "compare", !.found = user]]
    /\ started' = started + 1
    /\ UNCHANGED <<env, app, store, nextId, now, issued, registered, uploads>>

\* Mutant of loginCompare: a failed password check locks the account out by
\* deleting its row.
loginCompare_lockout(p) ==
    /\ req[p].op = "login" /\ req[p].pc = "compare"
    /\ LET r == [req[p] EXCEPT !.found = {}, !.at = now]
           user == CHOOSE u \in req[p].found : TRUE
           isPasswordValid == bcryptCompare(r.password, user.password)
           payload == [sub |-> user.id, email |-> user.email]
           secret == configGet(env)
           accessToken == jwtSign(payload, secret, TTL, now)
       IN  IF ~isPasswordValid
           THEN /\ Finish(p, [r EXCEPT !.thrown = "UnauthorizedException"],
                          loginCatch("UnauthorizedException", "Password is incorrect"))
                /\ store' = {u \in store : u.id # user.id}
                /\ UNCHANGED issued
           ELSE IF secret = ""
           THEN /\ Finish(p, [r EXCEPT !.thrown = "InternalServerErrorException"],
                          loginCatch("InternalServerErrorException", "JWT configuration error"))
                /\ UNCHANGED <<issued, store>>
           ELSE /\ issued' = issued \cup {accessToken}
                /\ Finish(p, r, [status |-> 200, error |-> "", message |-> "", invalid |-> {},
                                 user |-> {Select(user, {"id", "email"})},
                                 access_token |-> accessToken])
                /\ UNCHANGED store
    /\ UNCHANGED <<env, app, nextId, now, registered, started, uploads>>

\* await bcrypt.compare(password, user.password), then the rest of login:
\* the payload, the secret, the signature and the returned value.
loginCompare(p) ==
    /\ req[p].op = "login" /\ req[p].pc = "compare"
    /\ LET r == [req[p] EXCEPT !.found = {}, !.at = now]
           user == CHOOSE u \in req[p].found : TRUE
           isPasswordValid == bcryptCompare(r.password, user.password)
           payload == [sub |-> user.id, email |-> user.email]
           secret == configGet(env)
           accessToken == jwtSign(payload, secret, TTL, now)
       IN  IF ~isPasswordValid
           THEN /\ Finish(p, [r EXCEPT !.thrown = "UnauthorizedException"],
                          loginCatch("UnauthorizedException", "Password is incorrect"))
                /\ UNCHANGED issued
           ELSE IF secret = ""
           THEN /\ Finish(p, [r EXCEPT !.thrown = "InternalServerErrorException"],
                          loginCatch("InternalServerErrorException", "JWT configuration error"))
                /\ UNCHANGED issued
           ELSE /\ issued' = issued \cup {accessToken}
                /\ Finish(p, r, [status |-> 200, error |-> "", message |-> "", invalid |-> {},
                                 user |-> {Select(user, {"id", "email"})},
                                 access_token |-> accessToken])
    /\ UNCHANGED <<env, app, store, nextId, now, registered, started, uploads>>

\* ------------------------------------------------------------- route guard
\* ExtractJwt.fromAuthHeaderAsBearerToken(): the bearer token, or null.
jwtFromRequest(token) == IF token.kind = "none" THEN {} ELSE {token}

\* Mutant of jwtVerify: ignoreExpiration is set, the expiry is not looked at.
jwtVerify_ignoreExpiration(token, secretOrKey, t) ==
    /\ token.kind = "jwt"
    /\ token.key = secretOrKey

\* Verification of a token against secretOrKey at instant t (ignoreExpiration
\* is left at its default, false): well-formed, signed with the key, not expired.
jwtVerify(token, secretOrKey, t) ==
    /\ token.kind = "jwt"
    /\ token.key = secretOrKey
    /\ t < token.exp

\* Mutant of validate: only the subject is handed on.
validate_subOnly(payload) == [payload EXCEPT !.email = ""]

\* JwtStrategy.validate(payload): the payload itself becomes req.user.
validate(payload) == payload

\* Mutant of JwtStrategy: validate looks the subject up in the User table and
\* yields no user when the row is gone.
JwtStrategy_looksUpUser(token, secretOrKey, t) ==
    {validate([sub |-> tk.sub, email |-> tk.email, iat |-> tk.iat, exp |-> tk.exp]) :
        tk \in {x \in jwtFromRequest(token) :
                   jwtVerify(x, secretOrKey, t) /\ \E u \in store : u.id = x.sub}}

\* JwtStrategy (passport-jwt): the user handed to the guard's callback, or
\* false ({}) when there is no token or verification fails.
JwtStrategy(token, secretOrKey, t) ==
    {validate([sub |-> tk.sub, email |-> tk.email, iat |-> tk.iat, exp |-> tk.exp]) :
        tk \in {x \in jwtFromRequest(token) : jwtVerify(x, secretOrKey, t)}}

\* Mutant of handleRequest: a user that is present is returned, err or not.
handleRequest_userFirst(err, user) ==
    IF user # {}
    THEN [throws |-> FALSE, error |-> "", message |-> "", user |-> user]
    ELSE [throws |-> TRUE, error |-> IF err # "" THEN err ELSE "UnauthorizedException",
          message |-> IF err # "" THEN err ELSE "Invalid or expired token", user |-> {}]

\* Mutant of handleRequest: only err is tested, a missing user is let through.
handleRequest_errOnly(err, user) ==
    IF err # ""
    THEN [throws |-> TRUE, error |-> err, message |-> err, user |-> {}]
    ELSE [throws |-> FALSE, error |-> "", message |-> "", user |-> user]

\* JwtAuthGuard.handleRequest(err, user): throws err, or UnauthorizedException
\* when there is no user; returns the user otherwise.  err is "" when null.
handleRequest(err, user) ==
    IF err # "" \/ user = {}
    THEN [throws |-> TRUE, error |-> IF err # "" THEN err ELSE "UnauthorizedException",
          message |-> IF err # "" THEN err ELSE "Invalid or expired token", user |-> {}]
    ELSE [throws |-> FALSE, error |-> "", message |-> "", user |-> user]

\* The arguments with which passport's callback can call handleRequest: err
\* is null ("") or an error, user is false ({}) or a verified payload.
GuardErrs  == {"", "Error", "ForbiddenException"}
GuardUsers == {{}} \cup {{[sub |-> cuid(n), email |-> e, iat |-> 0, exp |-> TTL]} :
                            n \in {1, 2}, e \in Emails}

\* A call of JwtAuthGuard.handleRequest(err, user) on its own: what it throws
\* is answered through the exception filter, what it returns becomes req.user.
handleRequestCall(p) ==
    /\ CanStart(p)
    /\ \E err \in GuardErrs, user \in GuardUsers :
          LET r == [Idle EXCEPT !.op = "guard", !.err = err, !.user = user]
              g == handleRequest(err, user)
          IN  IF g.throws
              THEN Finish(p, [r EXCEPT !.thrown = g.error], Fail(g.error, g.message))
              ELSE Finish(p, [r EXCEPT !.reqUser = g.user], NoResp)
    /\ started' = started + 1
    /\ UNCHANGED <<env, app, store, nextId, now, issued, registered, uploads>>

\* The bearer tokens a client may present: none, garbage, one that login
\* returned, one of those re-signed with a key of the client's own, or one
\* that a response still at hand carries.
Forge(t) == [t EXCEPT !.key = "attacker-key"]
Presentable == {NoToken, Malformed} \cup issued \cup {Forge(t) : t \in issued}
                   \cup {req[q].resp.access_token : q \in Procs}

\* The reason passport-jwt reports for a failed authentication (the info
\* argument of the guard's callback): no token, not a JWT, a bad signature,
\* or an expired token, looked at in this order; "" on success.
jwtInfo(token, secretOrKey, t) ==
    IF jwtFromRequest(token) = {} THEN "No auth token"
    ELSE IF token.kind # "jwt" THEN "jwt malformed"
    ELSE IF token.key # secretOrKey THEN "invalid signature"
    ELSE IF t >= token.exp THEN "jwt expired"
    ELSE ""

\* Mutant of canActivate: the rejection carries the strategy's reason.
canActivate_infoMessage(token, secretOrKey, t) ==
    IF JwtStrategy(token, secretOrKey, t) = {}
    THEN [throws |-> TRUE, error |-> "UnauthorizedException",
          message |-> jwtInfo(token, secretOrKey, t), user |-> {}]
    ELSE [throws |-> FALSE, error |-> "", message |-> "",
          user |-> JwtStrategy(token, secretOrKey, t)]

\* JwtAuthGuard.canActivate: AuthGuard('jwt') runs the strategy and hands its
\* outcome to handleRequest; a failed authentication arrives there as
\* (null, false, info), and handleRequest takes no third argument.
canActivate(token, secretOrKey, t) == handleRequest("", JwtStrategy(token, secretOrKey, t))

\* GET /auth/me behind @UseGuards(JwtAuthGuard).
meGuard(p) ==
    /\ CanStart(p)
    /\ \E token \in Presentable :
          LET r == [Idle EXCEPT !.op = "me", !.token = token, !.at = now,
                                !.info = jwtInfo(token, env, now),
                                !.absent = (token.kind = "jwt" /\
                                            \A u \in store : u.id # token.sub)]
              g == canActivate(token, env, now)
          IN  IF g.throws
              THEN Finish(p, [r EXCEPT !.thrown = g.error], Fail(g.error, g.message))
              ELSE req' = [req EXCEPT ![p] = [r EXCEPT !.pc = "handler", !.reqUser = g.user]]
    /\ started' = started + 1
    /\ UNCHANGED <<env, app, store, nextId, now, issued, registered, uploads>>

\* Mutant of validateUser: the result of findUnique is returned unchecked.
validateUser_unchecked(userId) ==
    [status |-> 200, error |-> "", message |-> "", invalid |-> {},
     user |-> findUniqueById(userId, {"id", "email", "createdAt"}), access_token |-> NoToken]

\* AuthService.validateUser(userId)
validateUser(userId) ==
    LET user == findUniqueById(userId, {"id", "email", "createdAt"})
    IN  IF user = {}
        THEN Fail("UnauthorizedException", "User not found")
        ELSE [status |-> 200, error |-> "", message |-> "", invalid |-> {}, user |-> user,
              access_token |-> NoToken]

\* AuthController.getCurrentUser(req): validateUser(req.user.sub); reading
\* .sub of a missing req.user is a TypeError, answered 500.
getCurrentUser(p) ==
    /\ req[p].op = "me" /\ req[p].pc = "handler"
    /\ LET r == [req[p] EXCEPT !.handlerRan = TRUE]
       IN  IF r.reqUser = {}
           THEN Finish(p, [r EXCEPT !.thrown = "TypeError"],
                       Fail("TypeError", "Internal server error"))
           ELSE LET resp == validateUser((CHOOSE u \in r.reqUser : TRUE).sub)
                IN  Finish(p, [r EXCEPT !.thrown = resp.error], resp)
    /\ UNCHANGED <<env, app, store, nextId, now, issued, registered, started, uploads>>

\* ---------------------------------------------------------- dev controller
\* String.prototype.toLowerCase, tabulated on the addresses of the model.
Lower(s) ==
    CASE s = "A@b.com" -> "a@b.com"
      [] s = ".MP3"    -> ".mp3"
      [] OTHER         -> s

\* The secret of the JwtService that DevModule provides to DevController:
\* JWT_SECRET, as AuthModule's, or one of the module's own.
DevSecrets(e) == {e, "dev-secret"}

\* POST /auth/dev-login: signs { sub: 'dev-user-id', email } for whatever
\* email the body carries (lower-cased; 'dev@example.com' when absent); no
\* password is asked for and the User table is not read.
devLogin(p) ==
    /\ CanStart(p)
    /\ \E body \in Emails \cup {""}, secret \in DevSecrets(env) :
          LET email == IF Lower(body) # "" THEN Lower(body) ELSE "dev@example.com"
              token == jwtSign([sub |-> "dev-user-id", email |-> email], secret, TTL, now)
              r == [Idle EXCEPT !.op = "devLogin", !.email = body, !.at = now]
          IN  Finish(p, r, [status |-> 201, error |-> "", message |-> "", invalid |-> {},
                            user |-> {}, access_token |-> token])
    /\ started' = started + 1
    /\ UNCHANGED <<env, app, store, nextId, now, issued, registered, uploads>>

\* GET /whoami behind AuthGuard('jwt'), whose own handleRequest throws
\* UnauthorizedException when there is no user: answers { user: req.user }.
whoami(p) ==
    /\ CanStart(p)
    /\ \E token \in Presentable :
          LET user == JwtStrategy(token, env, now)
              r == [Idle EXCEPT !.op = "whoami", !.token = token, !.at = now,
                                !.info = jwtInfo(token, env, now), !.reqUser = user]
          IN  IF user = {}
              THEN Finish(p, [r EXCEPT !.thrown = "UnauthorizedException"],
                          Fail("UnauthorizedException", "Unauthorized"))
              ELSE Finish(p, [r EXCEPT !.handlerRan = TRUE],
                          [status |-> 200, error |-> "", message |-> "", invalid |-> {},
                           user |-> user, access_token |-> NoToken])
    /\ started' = started + 1
    /\ UNCHANGED <<env, app, store, nextId, now, issued, registered, uploads>>

\* ------------------------------------------------------------------ upload
\* limits: { fileSize: 50 * 1024 * 1024 }
fileSize == 50 * 1024 * 1024

\* The file part of a POST /upload: an audio file, one above the size limit,
\* a text file, and a file whose type only contains 'audio/'.
UploadFiles ==
    {[mimetype |-> "audio/mpeg",   originalname |-> "talk.MP3",  size |-> 1],
     [mimetype |-> "audio/mpeg",   originalname |-> "long.mp3",  size |-> fileSize + 1],
     [mimetype |-> "text/plain",   originalname |-> "notes.txt", size |-> 1],
     [mimetype |-> "x-audio/mpeg", originalname |-> "odd",       size |-> 1]}

\* String.prototype.startsWith
StartsWith(s, prefix) == Len(s) >= Len(prefix) /\ SubSeq(s, 1, Len(prefix)) = prefix

\* Mutant of fileFilter: the type is searched for 'audio/' anywhere in it.
fileFilter_includes(file) ==
    \E i \in 1..Len(file.mimetype) :
        /\ i + Len("audio/") - 1 <= Len(file.mimetype)
        /\ SubSeq(file.mimetype, i, i + Len("audio/") - 1) = "audio/"

\* fileFilter: a file is accepted iff its mimetype starts with 'audio/'.
fileFilter(file) == StartsWith(file.mimetype, "audio/")

\* path.extname, tabulated on the names of the model.
extname(name) ==
    CASE name = "talk.MP3"  -> ".MP3"
      [] name = "long.mp3"  -> ".mp3"
      [] name = "notes.txt" -> ".txt"
      [] OTHER              -> ""

\* crypto.randomUUID(): a name no earlier file carries.
randomUUID(n) == "uuid-" \o ToString(n)

\* filename: (req, file, cb) => cb(null, id + extname(file.originalname).toLowerCase())
storageFilename(file, id) == id \o Lower(extname(file.originalname))

\* Mutant of diskStorage: the file is kept in memory and not written.
diskStorage_memory(dir, name) == dir

\* diskStorage: the file is written into the uploads directory.
diskStorage(dir, name) == dir \cup {name}

\* FileInterceptor('file', ...): multer filters the file, then stores it; a
\* rejected or oversized file leaves nothing in the directory and ends the
\* request, a request without a file part goes on to the handler.
FileInterceptor(p) ==
    /\ CanStart(p)
    /\ \E f \in {{}} \cup {{x} : x \in UploadFiles} :
          LET r == [Idle EXCEPT !.op = "upload", !.file = f]
              x == CHOOSE y \in f : TRUE
              name == storageFilename(x, randomUUID(Cardinality(uploads) + 1))
          IN  IF f = {}
              THEN /\ req' = [req EXCEPT ![p] = [r EXCEPT !.pc = "handler"]]
                   /\ UNCHANGED uploads
              ELSE IF ~fileFilter(x)
              THEN /\ Finish(p, [r EXCEPT !.thrown = "BadRequestException"],
                             Fail("BadRequestException", "ONLY_AUDIO"))
                   /\ UNCHANGED uploads
              ELSE IF x.size > fileSize
              THEN /\ Finish(p, [r EXCEPT !.thrown = "PayloadTooLargeException"],
                             Fail("PayloadTooLargeException", "File too large"))
                   /\ UNCHANGED uploads
              ELSE /\ uploads' = diskStorage(uploads, name)
                   /\ req' = [req EXCEPT ![p] = [r EXCEPT !.pc = "handler", !.filename = name]]
    /\ started' = started + 1
    /\ UNCHANGED <<env, app, store, nextId, now, issued, registered>>

\* UploadController.upload(file) up to its await: NO_FILE without a file,
\* else the call of transcribeLocalFile(file.filename).
upload(p) ==
    /\ req[p].op = "upload" /\ req[p].pc = "handler"
    /\ IF req[p].file = {}
       THEN Finish(p, [req[p] EXCEPT !.thrown = "BadRequestException"],
                   Fail("BadRequestException", "NO_FILE"))
       ELSE req' = [req EXCEPT ![p].pc = "transcribe", ![p].transcribed = TRUE]
    /\ UNCHANGED <<env, app, store, nextId, now, issued, registered, started, uploads>>

\* TranscribeService.transcribeLocalFile resolves with the text, or rejects
\* with InternalServerErrorException carrying the API's message or
\* 'Transcription failed'; upload then returns { ok: true, url, text }.
transcribeLocalFile(p) ==
    /\ req[p].op = "upload" /\ req[p].pc = "transcribe"
    /\ \/ Finish(p, req[p],
                 [status |-> 201, error |-> "", message |-> "", invalid |-> {}, user |-> {},
                  access_token |-> NoToken, ok |-> TRUE,
                  url |-> "/uploads/" \o req[p].filename, text |-> "hello world"])
       \/ \E message \in {"Incorrect API key provided", "Transcription failed"} :
             Finish(p, [req[p] EXCEPT !.thrown = "AxiosError"],
                    Fail("InternalServerErrorException", message))
    /\ UNCHANGED <<env, app, store, nextId, now, issued, registered, started, uploads>>

\* ------------------------------------------------------------------ faults
\* Each await of register and login can reject for a reason of its
\* collaborator's: the database is unreachable, bcrypt or the signer throws.
\* The rejection lands in the method's catch.

\* await prisma.user.findUnique(...) of register rejects.
registerFindThrows(p) ==
    /\ CanStart(p)
    /\ \E email \in Emails, password \in Passwords :
          LET r == [Idle EXCEPT !.op = "register", !.email = email, !.password = password,
                                !.prior = {g \in registered : g.email = email},
                                !.thrown = "PrismaClientInitializationError"]
          IN  Finish(p, r, registerCatch(r.thrown, "Can't reach database server"))
    /\ started' = started + 1
    /\ UNCHANGED <<env, app, store, nextId, now, issued, registered, uploads>>

\* await bcrypt.hash(...) rejects.
registerHashThrows(p) ==
    /\ req[p].op = "register" /\ req[p].pc = "hash"
    /\ Finish(p, [req[p] EXCEPT !.thrown = "BcryptError"],
              registerCatch("BcryptError", "data and salt arguments required"))
    /\ UNCHANGED <<env, app, store, nextId, now, issued, registered, started, uploads>>

\* await prisma.user.create(...) rejects for a reason other than the unique
\* constraint; nothing is inserted.
registerCreateThrows(p) ==
    /\ req[p].op = "register" /\ req[p].pc = "create"
    /\ Finish(p, [req[p] EXCEPT !.thrown = "PrismaClientInitializationError"],
              registerCatch("PrismaClientInitializationError", "Can't reach database server"))
    /\ UNCHANGED <<env, app, store, nextId, now, issued, registered, started, uploads>>

\* await prisma.user.findUnique(...) of login rejects.
loginFindThrows(p) ==
    /\ CanStart(p)
    /\ \E email \in Emails, password \in Passwords :
          LET r == [Idle EXCEPT !.op = "login", !.email = email, !.password = password,
                                !.prior = {g \in registered : g.email = email},
                                !.thrown = "PrismaClientInitializationError"]
          IN  Finish(p, r, loginCatch(r.thrown, "Can't reach database server"))
    /\ started' = started + 1
    /\ UNCHANGED <<env, app, store, nextId, now, issued, registered, uploads>>

\* await bcrypt.compare(...) rejects.
loginCompareThrows(p) ==
    /\ req[p].op = "login" /\ req[p].pc = "compare"
    /\ Finish(p, [req[p] EXCEPT !.found = {}, !.at = now, !.thrown = "BcryptError"],
              loginCatch("BcryptError", "data and hash arguments required"))
    /\ UNCHANGED <<env, app, store, nextId, now, issued, registered, started, uploads>>

\* jwtService.sign(...) throws, after the password was found valid and the
\* secret read.
loginSignThrows(p) ==
    /\ req[p].op = "login" /\ req[p].pc = "compare"
    /\ \E user \in req[p].found : bcryptCompare(req[p].password, user.password)
    /\ configGet(env) # ""
    /\ Finish(p, [req[p] EXCEPT !.found = {}, !.at = now, !.thrown = "JwtSignError"],
              loginCatch("JwtSignError", "secretOrPrivateKey must have a value"))
    /\ UNCHANGED <<env, app, store, nextId, now, issued, registered, started, uploads>>

FaultStep(p) ==
    \/ registerFindThrows(p)
    \/ registerHashThrows(p)
    \/ registerCreateThrows(p)
    \/ loginFindThrows(p)
    \/ loginCompareThrows(p)
    \/ loginSignThrows(p)

\* ------------------------------------------------------------------- clock
\* d days pass.
Tick(d) ==
    /\ now + d <= MaxClock
    /\ now' = now + d
    /\ UNCHANGED <<env, app, store, nextId, req, issued, registered, started, uploads>>

\* One step of the request that task p handles.
Step(p) ==
    \/ registerFind(p)
    \/ registerHash(p)
    \/ registerCreate(p)
    \/ loginFind(p)
    \/ loginCompare(p)
    \/ meGuard(p)
    \/ getCurrentUser(p)

\* Concurrent requests within one instant of the clock: a request lasts
\* milliseconds, the clock counts days.
Next ==
    \/ bootstrap
    \/ \E p \in Procs : Step(p)

Spec == Init /\ [][Next]_vars

\* One request after another, over the days.
Serial == {"t1"}

NextTime ==
    \/ bootstrap
    \/ \E p \in Serial : Step(p)
    \/ Tick(1)

SpecTime == Init /\ [][NextTime]_vars

\* The User table is shared with whatever else administers the database: a
\* row can be removed from outside this core, between or during requests.
\* Here the clock moves by whole token lifetimes.
removeAccount ==
    /\ \E u \in store : store' = store \ {u}
    /\ UNCHANGED <<env, app, nextId, now, req, issued, registered, started, uploads>>

NextAdmin ==
    \/ bootstrap
    \/ \E p \in Serial : Step(p)
    \/ Tick(TTL)
    \/ removeAccount

SpecAdmin == Init /\ [][NextAdmin]_vars

\* Concurrent requests, with collaborators that can fail.
NextFault ==
    \/ bootstrap
    \/ \E p \in Procs : Step(p)
    \/ \E p \in Procs : FaultStep(p)

SpecFault == Init /\ [][NextFault]_vars

\* The application with DevModule's routes.
NextDev ==
    \/ bootstrap
    \/ \E p \in Procs : Step(p)
    \/ \E p \in Procs : devLogin(p)
    \/ \E p \in Procs : whoami(p)

SpecDev == Init /\ [][NextDev]_vars

\* Concurrent uploads.
NextUpload ==
    \/ bootstrap
    \/ \E p \in Procs : FileInterceptor(p)
    \/ \E p \in Procs : upload(p)
    \/ \E p \in Procs : transcribeLocalFile(p)

SpecUpload == Init /\ [][NextUpload]_vars

\* The guard's callback on its own, over all its arguments.
NextGuard ==
    \/ bootstrap
    \/ \E p \in Procs : handleRequestCall(p)

SpecGuard == Init /\ [][NextGuard]_vars

\* ================================================================= claims
Done(p, op) == req[p].op = op /\ req[p].pc = "done"

\* The request of task p passed the ValidationPipe: the controller's handler,
\* and with it the service method, was called.
Called(p) == req[p].thrown # "BadRequestException"

\* The stored password hashes.
Hashes == {u.password : u \in store}

\* C1: once register(email, password) has succeeded, a login with the same
\* email and password succeeds, and the sub claim of the token it returns is
\* the id of the account that register created.
C1_RegisterThenLogin ==
    \A p \in Procs :
        Done(p, "login") =>
            \A g \in req[p].prior :
                g.password = req[p].password =>
                    /\ req[p].resp.status = 200
                    /\ req[p].resp.access_token.kind = "jwt"
                    /\ req[p].resp.access_token.sub = g.id

C1_Witness ==
    \E p \in Procs :
        /\ Done(p, "login")
        /\ \E g \in req[p].prior : g.password = req[p].password
        /\ req[p].resp.status = 200

\* C2: once register(email, p1) has succeeded, every later call of
\* AuthService.register with the same email fails with ConflictException
\* (409), whatever its password.
C2_SecondRegisterConflicts ==
    \A p \in Procs :
        (Done(p, "register") /\ Called(p) /\ req[p].prior # {}) =>
            /\ req[p].resp.status = 409
            /\ req[p].resp.error = "ConflictException"

\* Two later registers of a registered email have failed, one with the
\* original password and one with another.
C2_Witness ==
    \E p, q \in Procs :
        /\ Done(p, "register") /\ Done(q, "register")
        /\ req[p].email = req[q].email
        /\ \E g \in req[p].prior : g.password = req[p].password
        /\ \E g \in req[q].prior : g.password # req[q].password
        /\ req[p].resp.status = 409 /\ req[q].resp.status = 409

\* C3: a login that fails on an unknown email and a login that fails on a
\* wrong password return the same error kind and the same message.
C3_LoginFailuresIndistinguishable ==
    \A p, q \in Procs :
        (/\ Done(p, "login") /\ req[p].resp.status = 401
         /\ Done(q, "login") /\ req[q].resp.status = 401) =>
            /\ req[p].resp.error = req[q].resp.error
            /\ req[p].resp.message = req[q].resp.message

\* C4: the store holds at most one account per email, under any interleaving
\* of register requests.
C4_OneAccountPerEmail ==
    \A u, v \in store : u.email = v.email => u = v

\* Two registrations of the same email both passed the pre-check; one
\* inserted, the store rejected the other.
C4_Witness ==
    \E p, q \in Procs :
        /\ Done(p, "register") /\ Done(q, "register")
        /\ req[p].email = req[q].email
        /\ req[p].resp.status = 201
        /\ req[q].thrown = "PrismaClientKnownRequestError"

\* C5: a register whose insert the store rejects for the unique constraint
\* fails with the same ConflictException (409) as the pre-check gives.
C5_LateDuplicateIsConflict ==
    \A p \in Procs :
        (Done(p, "register") /\ req[p].thrown = "PrismaClientKnownRequestError") =>
            /\ req[p].resp.status = 409
            /\ req[p].resp.error = "ConflictException"

\* C6: a token that login issued is accepted by the guard at the instant of
\* its issuance, and is rejected with 401 Unauthorized at every instant from
\* 7 days after its issuance on.
C6_TokenLifetime ==
    \A p \in Procs :
        (req[p].op = "me" /\ req[p].token \in issued) =>
            /\ req[p].at = req[p].token.iat => req[p].reqUser # {}
            /\ req[p].at >= req[p].token.iat + TTL =>
                  /\ req[p].pc = "done"
                  /\ req[p].reqUser = {}
                  /\ req[p].resp.status = 401
                  /\ req[p].resp.error = "UnauthorizedException"

\* An issued token was presented exactly 7 days after its issuance.
C6_Witness ==
    \E p \in Procs :
        /\ Done(p, "me") /\ req[p].token \in issued
        /\ req[p].at = req[p].token.iat + TTL
        /\ req[p].resp.status = 401

\* C7: GET /auth/me with no Authorization header, with a malformed token or
\* with a validly signed, expired token is answered 401, never 200, and
\* getCurrentUser is not run.
C7_MeRejectsBadTokens ==
    \A p \in Procs :
        (/\ req[p].op = "me"
         /\ \/ req[p].token.kind \in {"none", "malformed"}
            \/ req[p].token \in issued /\ req[p].at >= req[p].token.exp) =>
            /\ req[p].pc = "done"
            /\ req[p].resp.status = 401
            /\ ~req[p].handlerRan

\* A validly signed token was presented after its expiry.
C7_Witness ==
    \E p \in Procs :
        /\ Done(p, "me")
        /\ req[p].token \in issued /\ req[p].token.key = env
        /\ req[p].at > req[p].token.exp
        /\ req[p].resp.status = 401

\* C8: no response of register, login or GET /auth/me carries the stored
\* password hash, as a field of the user or as the value of any field.
C8_NoHashInResponses ==
    \A p \in Procs :
        LET r == req[p].resp
        IN  /\ \A u \in r.user :
                  /\ "password" \notin DOMAIN u
                  /\ \A f \in DOMAIN u \ {"createdAt"} : u[f] \notin Hashes
            /\ r.message \notin Hashes
            /\ r.error \notin Hashes
            /\ r.access_token.sub \notin Hashes
            /\ r.access_token.email \notin Hashes

\* A register and a login of the same account have both answered with a user.
C8_Witness ==
    \E p, q \in Procs :
        /\ Done(p, "register") /\ req[p].resp.status = 201
        /\ Done(q, "login") /\ req[q].resp.status = 200
        /\ req[p].email = req[q].email
        /\ Hashes # {}

\* C9: without a configured JWT_SECRET the application never listens: no
\* request is ever taken, and no login answers 'JWT configuration error'.
C9_NoSecretNeverServes ==
    /\ env = "" =>
          /\ app # "listening"
          /\ started = 0
          /\ \A p \in Procs : req[p] = Idle
    /\ \A p \in Procs : req[p].resp.message # "JWT configuration error"

C9_Witness == env = "" /\ app = "failed"

\* C10: a successful login returns a token whose claims are the id and the
\* email of the account with the request's email, issued at the instant of
\* the login and expiring 7 days later, together with that account's id and
\* email.
C10_LoginResult ==
    \A p \in Procs :
        (Done(p, "login") /\ req[p].resp.status = 200) =>
            \E u \in store :
                /\ u.email = req[p].email
                /\ req[p].resp.access_token =
                      [kind |-> "jwt", sub |-> u.id, email |-> u.email,
                       iat |-> req[p].at, exp |-> req[p].at + TTL, key |-> env]
                /\ req[p].resp.user = {[id |-> u.id, email |-> u.email]}

\* A login has succeeded some days after the start of the clock.
C10_Witness ==
    \E p \in Procs :
        /\ Done(p, "login") /\ req[p].resp.status = 200
        /\ req[p].at > 0
        /\ req[p].resp.access_token \in issued

\* C11: after register(e, p) and login(e, p) have succeeded, GET /auth/me with
\* the returned token, presented before its expiry, answers 200 with the id,
\* email and createdAt of the account that register created.
C11_MeReturnsRegisteredAccount ==
    \A p \in Procs :
        (/\ Done(p, "me")
         /\ req[p].token \in issued
         /\ req[p].at < req[p].token.exp) =>
            \E g \in registered, u \in store :
                /\ g.id = req[p].token.sub /\ g.email = req[p].token.email
                /\ u.id = g.id /\ u.email = g.email
                /\ req[p].resp.status = 200
                /\ req[p].resp.user =
                      {[id |-> g.id, email |-> g.email, createdAt |-> u.createdAt]}

\* The token was presented some days after the login, before its expiry.
C11_Witness ==
    \E p \in Procs :
        /\ Done(p, "me") /\ req[p].token \in issued
        /\ req[p].token.iat < req[p].at /\ req[p].at < req[p].token.exp
        /\ req[p].resp.status = 200

\* C12: a register request whose email is not an email address or whose
\* password is shorter than 8 or longer than 100 characters is answered 400
\* (BadRequestException) without reaching the handler, and no account is
\* ever created from such a request.
C12_InvalidRegisterRejected ==
    /\ \A p \in Procs :
          (/\ req[p].op = "register"
           /\ \/ req[p].email \notin Emails
              \/ Len(req[p].password) < 8
              \/ Len(req[p].password) > 100) =>
              /\ req[p].pc = "done"
              /\ req[p].resp.status = 400
              /\ req[p].resp.error = "BadRequestException"
              /\ req[p].resp.user = {}
              /\ req[p].hashedPassword = ""
    /\ \A u \in store : u.email \in Emails
    /\ \A g \in registered :
          g.email \in Emails /\ Len(g.password) >= 8 /\ Len(g.password) <= 100

\* One register was refused for its email, another for a password of 101
\* characters, and the store is still empty.
C12_Witness ==
    \E p, q \in Procs :
        /\ Done(p, "register") /\ req[p].email \notin Emails /\ req[p].resp.status = 400
        /\ Done(q, "register") /\ Len(req[q].password) = 101 /\ req[q].resp.status = 400
        /\ req[q].resp.invalid = {"password"}
        /\ store = {}

\* C13: validateUser(id) fails (UnauthorizedException, 401) and returns no user
\* when no account has that id, and returns exactly the id, email and
\* createdAt of the account when there is one.
C13_ValidateUser ==
    [][\A p \in Procs :
          (req[p].op = "me" /\ req[p].pc = "handler" /\ req'[p].pc = "done") =>
              LET userId == (CHOOSE c \in req[p].reqUser : TRUE).sub
                  rows == {u \in store : u.id = userId}
              IN  IF rows = {}
                  THEN /\ req'[p].resp.status = 401
                       /\ req'[p].resp.error = "UnauthorizedException"
                       /\ req'[p].resp.user = {}
                  ELSE /\ req'[p].resp.status = 200
                       /\ req'[p].resp.user =
                             {[id |-> u.id, email |-> u.email, createdAt |-> u.createdAt] :
                                 u \in rows}]_vars

\* The handler ran for a token whose account is no longer in the table.
C13_Witness ==
    \E p \in Procs :
        /\ Done(p, "me") /\ req[p].handlerRan
        /\ \A u \in store : \A c \in req[p].reqUser : u.id # c.sub
        /\ req[p].resp.status = 401
        /\ req[p].resp.message = "User not found"

\* C14: a request to the guarded endpoint is, from the guard's step on, either
\* authenticated (claims attached) or rejected (401, handler not run), never
\* both and never neither; without a bearer token it is rejected; the handler
\* runs only for an authenticated request.
C14_GuardTwoOutcomes ==
    \A p \in Procs :
        req[p].op = "me" =>
            LET authenticated == req[p].reqUser # {}
                rejected == /\ req[p].pc = "done"
                            /\ ~req[p].handlerRan
                            /\ req[p].resp.status = 401
                            /\ req[p].resp.error = "UnauthorizedException"
            IN  /\ authenticated # rejected
                /\ req[p].token.kind = "none" => rejected
                /\ req[p].handlerRan => authenticated
                /\ req[p].pc = "handler" => authenticated

\* A request without a bearer token was rejected before its handler.
C14_Witness ==
    \E p \in Procs :
        /\ Done(p, "me") /\ req[p].token.kind = "none"
        /\ req[p].info = "No auth token"
        /\ req[p].resp.status = 401 /\ ~req[p].handlerRan

\* C15: whatever makes the verification of the token fail (a bad signature,
\* an expired token, a malformed one), the guard answers with one and the
\* same 401 Unauthorized response.
C15_OneUnauthorizedResponse ==
    \A p \in Procs :
        (req[p].op = "me" /\ req[p].info # "") =>
            /\ req[p].pc = "done"
            /\ req[p].resp = [status |-> 401, error |-> "UnauthorizedException",
                              message |-> "Invalid or expired token", invalid |-> {},
                              user |-> {}, access_token |-> NoToken]

\* A token from login, re-signed with another key, was rejected.
C15_Witness ==
    \E p \in Procs :
        /\ Done(p, "me")
        /\ req[p].info = "invalid signature"
        /\ req[p].token.key # env /\ [req[p].token EXCEPT !.key = env] \in issued
        /\ req[p].resp.status = 401

\* C16: an accepted request carries exactly the claims of its verified token
\* as req.user, a rejected one carries none, and the guard's step changes
\* nothing else: not the User table, not any other state of the application.
C16_GuardOnlyAttachesClaims ==
    /\ [](\A p \in Procs :
            req[p].op = "me" =>
                /\ req[p].info = "" =>
                      /\ req[p].token.kind = "jwt" /\ req[p].token.key = env
                      /\ req[p].reqUser =
                            {[sub |-> req[p].token.sub, email |-> req[p].token.email,
                              iat |-> req[p].token.iat, exp |-> req[p].token.exp]}
                /\ req[p].info # "" => req[p].reqUser = {})
    /\ [][\A p \in Procs :
            (req[p].pc = "done" /\ req'[p] # req[p] /\ req'[p].op = "me") =>
                /\ UNCHANGED <<env, app, store, nextId, now, issued, registered, uploads>>
                /\ \A q \in Procs \ {p} : req'[q] = req[q]]_vars

\* The guard has accepted a token from login; the handler has not run yet.
C16_Witness ==
    \E p \in Procs :
        /\ req[p].op = "me" /\ req[p].pc = "handler"
        /\ req[p].token \in issued
        /\ req[p].reqUser # {}
        /\ store # {}

\* C17: the User table only ever grows, by one row at a time and only in the
\* create step of a register that answers 201; login, GET /auth/me and the
\* guard leave it as it is, and a row, once there, is never changed or removed.
C17_AccountsOnlyCreatedByRegister ==
    [][/\ store \subseteq store'
       /\ store' # store =>
             \E p \in Procs :
                 /\ req[p].op = "register" /\ req[p].pc = "create"
                 /\ req'[p].pc = "done" /\ req'[p].resp.status = 201
                 /\ \E u \in store' : store' = store \cup {u} /\ {u} = {v \in store' : v.email = req[p].email}
       /\ (\E p \in Procs : req'[p] # req[p] /\ req'[p].op \in {"login", "me"}) =>
             store' = store]_vars

\* A register, a login and a GET /auth/me of one account have all run.
C17_Witness ==
    \E p \in Procs :
        /\ Done(p, "me") /\ req[p].resp.status = 200
        /\ req[p].token \in issued
        /\ \E u \in store : req[p].resp.user = {Select(u, {"id", "email", "createdAt"})}

C19_RetrySafe ==
    /\ [](/\ \A p, q \in Procs :
                (/\ Done(p, "login") /\ Done(q, "login")
                 /\ req[p].email = req[q].email /\ req[p].password = req[q].password
                 /\ req[p].prior = req[q].prior) =>
                    /\ req[p].resp.status = req[q].resp.status
                    /\ req[p].resp.error = req[q].resp.error
                    /\ req[p].resp.user = req[q].resp.user
          /\ \A p, q \in Procs :
                (/\ Done(p, "me") /\ Done(q, "me")
                 /\ req[p].token = req[q].token /\ req[p].at = req[q].at
                 /\ req[p].absent = req[q].absent) =>
                    /\ req[p].resp.status = req[q].resp.status
                    /\ req[p].resp.error = req[q].resp.error
                    /\ req[p].resp.user = req[q].resp.user
          /\ \A p \in Procs :
                (Done(p, "register") /\ Called(p) /\ req[p].prior # {}) =>
                    req[p].resp.error = "ConflictException")
    /\ [][\A p \in Procs :
            (req'[p] # req[p] /\ req'[p].op \in {"login", "me"}) =>
                store' = store /\ registered' = registered]_vars

\* The same login ran twice for a registered account and succeeded both times.
C19_Witness ==
    \E p, q \in Procs :
        /\ p # q
        /\ Done(p, "login") /\ Done(q, "login")
        /\ req[p].email = req[q].email /\ req[p].password = req[q].password
        /\ req[p].prior = req[q].prior /\ req[p].prior # {}
        /\ req[p].resp.status = 200 /\ req[q].resp.status = 200

\* C20: every way a request can end is reported under its one HTTP status:
\* a created account 201, an email that is already registered 409 (found by
\* the pre-check or by the unique constraint at the insert), a rejected body
\* 400, a login 200, wrong credentials 401, GET /auth/me without a valid
\* token 401, and a failure of the configuration 500.
C20_OneStatusPerOutcome ==
    \A p \in Procs :
        req[p].pc = "done" =>
            /\ req[p].thrown = "BadRequestException" => req[p].resp.status = 400
            /\ (req[p].op = "register" /\ req[p].thrown = "") => req[p].resp.status = 201
            /\ (/\ req[p].op = "register"
                /\ req[p].thrown \in {"ConflictException", "PrismaClientKnownRequestError"}) =>
                    req[p].resp.status = 409
            /\ (req[p].op = "login" /\ req[p].thrown = "") => req[p].resp.status = 200
            /\ (req[p].op = "login" /\ req[p].thrown = "UnauthorizedException") =>
                    req[p].resp.status = 401
            /\ (req[p].op = "login" /\ req[p].thrown = "InternalServerErrorException") =>
                    req[p].resp.status = 500
            /\ (req[p].op = "me" /\ req[p].reqUser = {}) => req[p].resp.status = 401

\* C21: a register whose bcrypt.hash fails is answered with
\* InternalServerErrorException (500) and no user; it never reaches
\* prisma.user.create, and the failing step leaves the User table as it was.
C21_HashFailureIsInternalError ==
    /\ [](\A p \in Procs :
            (Done(p, "register") /\ req[p].thrown = "BcryptError") =>
                /\ req[p].resp.status = 500
                /\ req[p].resp.error = "InternalServerErrorException"
                /\ req[p].resp.message = "Failed to register user"
                /\ req[p].resp.user = {}
                /\ req[p].hashedPassword = "")
    /\ [][\A p \in Procs :
            (req[p].pc = "hash" /\ req'[p].thrown = "BcryptError") =>
                /\ req'[p].pc = "done"
                /\ store' = store /\ nextId' = nextId /\ registered' = registered]_vars

\* A register failed in bcrypt.hash, and the table holds no row for its email.
C21_Witness ==
    \E p \in Procs :
        /\ Done(p, "register") /\ req[p].thrown = "BcryptError"
        /\ req[p].resp.status = 500
        /\ store # {}
        /\ \A u \in store : u.email # req[p].email

\* C22: the password column of every row of the User table holds a bcrypt
\* hash (cost saltRounds) of the password that was passed to the register
\* which created the row, and never that password itself.
C22_StoredPasswordIsHash ==
    \A u \in store :
        \E g \in registered :
            /\ g.id = u.id /\ g.email = u.email
            /\ u.password # g.password
            /\ u.password \notin Passwords \cup BadPasswords
            /\ \E s \in Salts : u.password = bcryptHash(g.password, saltRounds, s)

\* Two accounts were registered with the same password, under two salts.
C22_Witness ==
    \E u, v \in store :
        \E g, h \in registered :
            /\ g.id = u.id /\ h.id = v.id /\ u.id # v.id
            /\ g.password = h.password
            /\ u.password # v.password

\* C23: register looks the email up before it hashes: a register for an
\* email that had an account when it arrived never reaches bcrypt.hash nor
\* prisma.user.create, its password is neither hashed nor compared nor
\* stored, and it ends with ConflictException.
C23_LookupBeforeHash ==
    /\ [](\A p \in Procs :
            /\ (req[p].op = "register" /\ req[p].pc \in {"hash", "create"}) =>
                    req[p].prior = {}
            /\ (req[p].op = "register" /\ Called(p) /\ req[p].prior # {}) =>
                    /\ req[p].pc = "done"
                    /\ req[p].hashedPassword = ""
                    /\ req[p].found = {}
                    /\ req[p].thrown = "ConflictException"
                    /\ \A u \in store : u.email = req[p].email =>
                            \E g \in req[p].prior : g.id = u.id)
    /\ [][\A p \in Procs :
            (req'[p] # req[p] /\ req'[p].op = "register" /\ req'[p].prior # {}) =>
                store' = store /\ nextId' = nextId]_vars

\* A register for a registered email, with a password of its own, was turned
\* away by the lookup.
C23_Witness ==
    \E p \in Procs :
        /\ Done(p, "register") /\ Called(p)
        /\ \E g \in req[p].prior : g.password # req[p].password
        /\ req[p].hashedPassword = ""
        /\ req[p].resp.error = "ConflictException"
        /\ \A u \in store : \A s \in Salts :
                u.password # bcryptHash(req[p].password, saltRounds, s)

\* C24: handleRequest(err, user) returns the user exactly when err is absent
\* and the user present; with an err it throws that err, a user being
\* present or not; with neither it throws
\* UnauthorizedException('Invalid or expired token').
C24_HandleRequest ==
    \A p \in Procs :
        Done(p, "guard") =>
            /\ req[p].reqUser # {} <=> (req[p].err = "" /\ req[p].user # {})
            /\ req[p].reqUser # {} => (req[p].reqUser = req[p].user /\ req[p].thrown = "")
            /\ req[p].err # "" =>
                    /\ req[p].thrown = req[p].err
                    /\ req[p].resp.error = req[p].err
            /\ (req[p].err = "" /\ req[p].user = {}) =>
                    /\ req[p].thrown = "UnauthorizedException"
                    /\ req[p].resp.message = "Invalid or expired token"
                    /\ req[p].resp.status = 401

\* handleRequest was called with both an err and a user, and threw the err.
C24_Witness ==
    \E p \in Procs :
        /\ Done(p, "guard")
        /\ req[p].err # "" /\ req[p].user # {}
        /\ req[p].thrown = req[p].err /\ req[p].reqUser = {}

\* C25: in register and login a failure of a known kind (ConflictException
\* for register; UnauthorizedException or InternalServerErrorException for
\* login) reaches the caller as it was thrown, with its message, and every
\* other failure reaches the caller as InternalServerErrorException (500,
\* 'Failed to register user' / 'Failed to login'), with no user and no token.
C25_UnknownFailuresAreInternal ==
    \A p \in Procs :
        (/\ req[p].pc = "done" /\ req[p].op \in {"register", "login"}
         /\ Called(p) /\ req[p].thrown # "") =>
            LET known == IF req[p].op = "register"
                         THEN {"ConflictException"}
                         ELSE {"UnauthorizedException", "InternalServerErrorException"}
            IN  IF req[p].thrown \in known
                THEN /\ req[p].resp.error = req[p].thrown
                     /\ req[p].resp.status = StatusOf(req[p].thrown)
                     /\ req[p].resp.message \in
                            {"User with this email already exists", "User not found",
                             "Password is incorrect", "JWT configuration error"}
                ELSE /\ req[p].resp.error = "InternalServerErrorException"
                     /\ req[p].resp.status = 500
                     /\ req[p].resp.message = IF req[p].op = "register"
                                              THEN "Failed to register user"
                                              ELSE "Failed to login"
                     /\ req[p].resp.user = {}
                     /\ req[p].resp.access_token = NoToken

\* A login for a registered account failed in the store and was answered
\* with the wrapped error.
C25_Witness ==
    \E p \in Procs :
        /\ Done(p, "login") /\ req[p].prior # {}
        /\ req[p].thrown = "PrismaClientInitializationError"
        /\ req[p].resp.error = "InternalServerErrorException"
        /\ req[p].resp.message = "Failed to login"

\* C26: a token that the guard of GET /auth/me or of GET /whoami accepts is
\* one that a successful login returned, and every token that a response
\* hands out and that verifies under JWT_SECRET comes from a successful login.
C26_AcceptedTokensComeFromLogin ==
    \A p \in Procs :
        /\ (req[p].op \in {"me", "whoami"} /\ req[p].reqUser # {}) =>
                req[p].token \in issued
        /\ (req[p].pc = "done" /\ jwtVerify(req[p].resp.access_token, env, req[p].at)) =>
                /\ req[p].op = "login"
                /\ req[p].resp.access_token \in issued

\* C27: a register that ends in a conflict leaves the User table as it was,
\* and a login that arrives after it behaves as if it had not been: with the
\* password of the original register it succeeds with the original account
\* id, with any other password, the one of the failed register included, it
\* fails with UnauthorizedException.
C27_ConflictLeavesAccountUnchanged ==
    /\ [](\A p \in Procs :
            (Done(p, "login") /\ Called(p) /\ req[p].rejected # {}) =>
                /\ req[p].prior # {}
                /\ \A g \in req[p].prior :
                      IF req[p].password = g.password
                      THEN /\ req[p].resp.status = 200
                           /\ req[p].resp.user = {[id |-> g.id, email |-> g.email]}
                           /\ req[p].resp.access_token.sub = g.id
                      ELSE /\ req[p].resp.status = 401
                           /\ req[p].resp.access_token = NoToken)
    /\ [][\A p \in Procs :
            (req'[p] # req[p] /\ req'[p].thrown = "ConflictException") =>
                store' = store]_vars

\* After a register with another password had ended in a conflict, a login
\* with the original password succeeded.
C27_Witness ==
    \E p \in Procs :
        /\ Done(p, "login") /\ req[p].resp.status = 200
        /\ req[p].rejected # {}
        /\ req[p].password \notin req[p].rejected
        /\ \E g \in req[p].prior : g.password = req[p].password /\ g.id = req[p].resp.access_token.sub

\* C28: emails are matched as raw strings: the lookup of login(e2, p) finds
\* an account exactly when a register(e1, p) with e1 = e2, character for
\* character, has succeeded, and it is that account which a successful login
\* returns; addresses that differ in letter case only are different accounts.
C28_EmailsMatchedExactly ==
    /\ [](\A p \in Procs :
            (Done(p, "login") /\ req[p].resp.status = 200) =>
                \E g \in registered :
                    /\ g.email = req[p].email
                    /\ req[p].resp.user = {[id |-> g.id, email |-> req[p].email]})
    /\ [][\A p \in Procs :
            (/\ req[p].pc = "done" /\ req'[p] # req[p]
             /\ req'[p].op = "login" /\ req'[p].thrown # "BadRequestException") =>
                /\ req'[p].pc = "compare" <=> \E g \in registered : g.email = req'[p].email
                /\ req'[p].pc # "compare" => req'[p].resp.message = "User not found"
                /\ \A u \in req'[p].found :
                      \E g \in registered : g.id = u.id /\ g.email = req'[p].email]_vars

\* Two addresses that differ in letter case only are two accounts, and a
\* login with the upper-case one got the account of that one.
C28_Witness ==
    \E u, v \in store :
        /\ u.email = "a@b.com" /\ v.email = "A@b.com" /\ u.id # v.id
        /\ Lower(v.email) = u.email
        /\ \E p \in Procs :
              /\ Done(p, "login") /\ req[p].email = v.email
              /\ req[p].resp.status = 200
              /\ req[p].resp.access_token.sub = v.id

\* C29: a POST /upload without a file, or with a file whose mimetype does not
\* start with 'audio/', never has transcribeLocalFile called, stores nothing,
\* and ends with BadRequestException: NO_FILE, respectively ONLY_AUDIO.
C29_NoTranscriptionWithoutAudio ==
    /\ [](\A p \in Procs :
            (/\ req[p].op = "upload"
             /\ \A f \in req[p].file : f.mimetype \notin {"audio/mpeg"}) =>
                /\ ~req[p].transcribed
                /\ req[p].pc # "transcribe"
                /\ req[p].filename = ""
                /\ req[p].pc = "done" =>
                      /\ req[p].resp.status = 400
                      /\ req[p].resp.error = "BadRequestException"
                      /\ req[p].resp.message = IF req[p].file = {} THEN "NO_FILE"
                                                                  ELSE "ONLY_AUDIO")
    /\ [][\A p \in Procs :
            (/\ req'[p] # req[p] /\ req'[p].op = "upload"
             /\ \A f \in req'[p].file : f.mimetype \notin {"audio/mpeg"}) =>
                uploads' = uploads]_vars

\* A file whose type contains, but does not start with, 'audio/' was turned
\* away while the directory held an accepted file.
C29_Witness ==
    \E p \in Procs :
        /\ Done(p, "upload")
        /\ \E f \in req[p].file : f.mimetype = "x-audio/mpeg"
        /\ req[p].resp.message = "ONLY_AUDIO"
        /\ ~req[p].transcribed
        /\ uploads # {}

\* C30: POST /upload has stored the file when it calls transcribeLocalFile;
\* it answers { ok: true, url, text } only after a transcription that
\* succeeded; a transcription that fails ends the request with
\* InternalServerErrorException and the stored file stays in the directory,
\* from which nothing is ever removed.
C30_StoreThenTranscribe ==
    /\ [](\A p \in Procs :
            req[p].op = "upload" =>
                /\ req[p].transcribed =>
                      /\ req[p].filename # ""
                      /\ req[p].filename \in uploads
                /\ (req[p].pc = "done" /\ req[p].resp.status = 201) =>
                      /\ req[p].transcribed /\ req[p].thrown = ""
                      /\ req[p].resp.ok
                      /\ req[p].resp.url = "/uploads/" \o req[p].filename
                      /\ req[p].resp.text = "hello world"
                /\ (req[p].pc = "done" /\ req[p].thrown = "AxiosError") =>
                      /\ req[p].resp.status = 500
                      /\ req[p].resp.error = "InternalServerErrorException"
                      /\ req[p].filename \in uploads)
    /\ [][uploads \subseteq uploads']_vars

\* A transcription failed and the file it was about is still stored, under
\* a lower-cased extension.
C30_Witness ==
    \E p \in Procs :
        /\ Done(p, "upload") /\ req[p].thrown = "AxiosError"
        /\ req[p].resp.status = 500
        /\ req[p].filename = "uuid-1.mp3"
        /\ req[p].filename \in uploads
====
